---- MODULE Spec2Model ----
(***************************************************************************)
(* Model of the structural source-code analyzers of docs/:                 *)
(*   extract_app_docs.py  JavaMethodExtractor (two-pass usage graph)       *)
(*   extract_api.py       JavaMethodExtractor (single pass, no graph)      *)
(*   analyze_code.py      JavaParser                                       *)
(*                                                                         *)
(* Strings that the code takes apart at '.' (package names, imports,       *)
(* fully-qualified names) are sequences of their dot-separated components: *)
(* "q.B" is <<"q", "B">>, and f"{package}.{name}" is package \o <<name>>.  *)
(* A type string is the sequence of its tokens, the words and the          *)
(* characters [ ] < > , of the text: "List<B>" is <<"List","<","B",">">>.  *)
(* Python's None is "" for a name and <<>> for a dotted name.              *)
(* A source file is the structure that the regular expressions of the      *)
(* scanners find in its text.                                              *)
(***************************************************************************)
EXTENDS Integers, Sequences, FiniteSets, TLC

VARIABLES
    variant,       \* which program runs: the script that was started
    files,         \* the files under src_dir, in the order they are visited
    pc,            \* position of the running program
    fileIdx,       \* index of the next file of the scanning loop
    api_data,      \* extract_app_docs.JavaMethodExtractor.api_data (key -> record)
    api_order,     \* insertion order of the keys of api_data (a dict is ordered)
    class_lookup,  \* extract_app_docs.JavaMethodExtractor.class_lookup
    ci,            \* analyze_scope: index in api_order of the consumer class
    ri,            \* analyze_scope: index of the next reference of that consumer
    warnings,      \* files named by the error messages printed so far
    classes,       \* analyze_code.JavaParser.classes
    basic_api,     \* extract_api.JavaMethodExtractor.api_data
    args,          \* the arguments of the function called on its own
    returned,      \* the values that function has returned, one per call
    cursor         \* Pass 2 taken in any order: consumer -> index of its next reference

vars == <<variant, files, pc, fileIdx, api_data, api_order, class_lookup,
          ci, ri, warnings, classes, basic_api, args, returned, cursor>>

\* Largest number of files under src_dir.
MaxFiles == 3

None == <<>>

InSeq(x, s) == \E i \in 1..Len(s) : s[i] = x

Count(x, s) == Cardinality({i \in 1..Len(s) : s[i] = x})

EmptyMap == [k \in {} |-> None]

(***************************************************************************)
(* The input files.                                                        *)
(***************************************************************************)
JavaFile(pkg, cls, loose, ext, imps, sigs, ctors) ==
    [raises |-> FALSE, package |-> pkg, className |-> cls, looseName |-> loose,
     extends |-> ext, implements |-> <<>>, line |-> 1, importStmts |-> imps,
     signatures |-> sigs, ctorMatches |-> ctors]

Sig(name, ret, params) == [name |-> name, returnType |-> ret, parameters |-> params]

Ctor(name, params) == [name |-> name, parameters |-> params]

\* A file that cannot be read or decoded, or on which extraction raises.
Unreadable ==
    [raises |-> TRUE, package |-> <<>>, className |-> "", looseName |-> "",
     extends |-> "", implements |-> <<>>, line |-> 1, importStmts |-> <<>>,
     signatures |-> <<>>, ctorMatches |-> <<>>]

\* package q; and no declaration at all.
NoDecl == JavaFile(<<"q">>, "", "", "", <<>>, <<>>, <<>>)

\* package q; a comment "// see class B" and no declaration at a line start.
CommentOnly == JavaFile(<<"q">>, "", "B", "", <<>>, <<>>, <<>>)

\* package p; import q.B; class A extends B { B f(String s) {} }
File_pA_usesB ==
    JavaFile(<<"p">>, "A", "A", "B", << <<"q", "B">> >>,
             << Sig("f", <<"B">>, << <<"String">> >>) >>, <<>>)

\* package p; import q.*; import ext.B; import q.B; class A extends A {
\*   B[] g(A a, B b) {}   public A(B b) {} }
File_pA_self ==
    JavaFile(<<"p">>, "A", "A", "A",
             << <<"q", "*">>, <<"ext", "B">>, <<"q", "B">> >>,
             << Sig("g", <<"B", "[", "]">>, << <<"A">>, <<"B">> >>),
                Sig("A", <<"public">>, << <<"B">> >>) >>,
             << Ctor("A", << <<"B">> >>) >>)

\* package p; class B { A h(List<B> x) {} }
File_pB ==
    JavaFile(<<"p">>, "B", "B", "", <<>>,
             << Sig("h", <<"A">>, << <<"List", "<", "B", ">">> >>) >>, <<>>)

\* package q; import p.A; class B { A k() {} }
File_qB ==
    JavaFile(<<"q">>, "B", "B", "", << <<"p", "A">> >>,
             << Sig("k", <<"A">>, <<>>) >>, <<>>)

\* package q; class String { B m(String s) {} }
File_qString ==
    JavaFile(<<"q">>, "String", "String", "", <<>>,
             << Sig("m", <<"B">>, << <<"String">> >>) >>, <<>>)

\* package p; class String { [] bad() {} }
File_pString ==
    JavaFile(<<"p">>, "String", "String", "", <<>>,
             << Sig("bad", <<"[", "]">>, <<>>) >>, <<>>)

\* package q; class A extends B { }
File_qA == JavaFile(<<"q">>, "A", "A", "B", <<>>, <<>>, <<>>)

\* no package statement; import q.*; class B { String n(A a) {} }
File_defaultB ==
    JavaFile(<<>>, "B", "B", "", << <<"q", "*">> >>,
             << Sig("n", <<"String">>, << <<"A">> >>) >>, <<>>)

FileCatalogue ==
    {Unreadable, NoDecl, CommentOnly, File_pA_usesB, File_pA_self, File_pB,
     File_qB, File_qString, File_pString, File_qA, File_defaultB}

FileLists == UNION {[1..n -> FileCatalogue] : n \in 0..MaxFiles}

(***************************************************************************)
(* extract_app_docs.py: the scanners of Pass 1.                            *)
(***************************************************************************)
extract_package(content) ==
    IF content.package = <<>> THEN <<"default">> ELSE content.package

\* The pattern import\s+([\w.]+); does not match "import q.*;".
extract_imports(content) ==
    SelectSeq(content.importStmts, LAMBDA imp : imp[Len(imp)] # "*")

extract_class_info(content) ==
    IF content.className # ""
    THEN [name |-> content.className, extends |-> content.extends,
          implements |-> content.implements, line |-> content.line]
    ELSE [name |-> "Unknown", extends |-> "", implements |-> <<>>, line |-> 1]

control_keywords ==
    {"if", "else", "for", "while", "switch", "case", "try", "catch", "finally", "do"}

extract_methods(content, class_name) ==
    SelectSeq(content.signatures, LAMBDA m :
        /\ m.name \notin control_keywords
        /\ m.name # class_name
        /\ m.returnType # <<>>
        /\ m.returnType \notin {<<"public">>, <<"private">>, <<"protected">>}
        /\ m.returnType # <<m.name>>
        /\ \A i \in 1..Len(m.returnType) :
               m.returnType[i] \notin {"*", "/", "{", "}", ";"})

extract_constructors(content, class_name) ==
    SelectSeq(content.ctorMatches, LAMBDA c : c.name = class_name)

\* The record process_file returns for a readable file with a declaration.
process_file(content, path) ==
    LET class_info == extract_class_info(content)
        class_name == class_info.name
    IN  [package      |-> extract_package(content),
         className    |-> class_name,
         file         |-> path,
         line         |-> class_info.line,
         extends      |-> class_info.extends,
         implements   |-> class_info.implements,
         imports      |-> extract_imports(content),
         constructors |-> extract_constructors(content, class_name),
         methods      |-> extract_methods(content, class_name),
         usedBy       |-> <<>>,
         uses         |-> <<>>]

\* The except branch of process_file loses the warning.
report_error_silent(printed, file_path) == printed

\* The except branch of process_file: print(f"Error processing {file_path}: {e}")
report_error(printed, file_path) == Append(printed, file_path)

\* process_file returns None: the file raises, or no declaration is found.
process_file_fails(content) ==
    content.raises \/ extract_class_info(content).name = "Unknown"

\* class_lookup keeps the first name registered for a simple name.
register_class_first(lookup, class_name, full_class_name) ==
    lookup @@ (class_name :> full_class_name)

\* self.class_lookup[class_data['className']] = full_class_name
register_class(lookup, class_name, full_class_name) ==
    (class_name :> full_class_name) @@ lookup

Init ==
    /\ variant \in {"extract_app_docs", "extract_api", "analyze_code"}
    /\ files \in FileLists
    /\ pc = "scan"
    /\ fileIdx = 1
    /\ api_data = EmptyMap
    /\ api_order = <<>>
    /\ class_lookup = EmptyMap
    /\ ci = 0
    /\ ri = 0
    /\ warnings = <<>>
    /\ classes = EmptyMap
    /\ basic_api = EmptyMap
    /\ args = <<>>
    /\ returned = <<>>
    /\ cursor = EmptyMap

\* extract_all, Pass 1: one iteration of the loop over sorted(java_files).
Pass1Step ==
    /\ variant = "extract_app_docs"
    /\ pc = "scan"
    /\ fileIdx <= Len(files)
    /\ LET content == files[fileIdx] IN
       IF process_file_fails(content)
       THEN /\ warnings' = IF content.raises THEN report_error(warnings, fileIdx)
                           ELSE warnings
            /\ UNCHANGED <<api_data, api_order, class_lookup>>
       ELSE LET class_data == process_file(content, fileIdx)
                full_class_name == class_data.package \o <<class_data.className>>
            IN  /\ api_data' = (full_class_name :> class_data) @@ api_data
                /\ api_order' = IF full_class_name \in DOMAIN api_data
                                THEN api_order
                                ELSE Append(api_order, full_class_name)
                /\ class_lookup' =
                       register_class(class_lookup, class_data.className,
                                      full_class_name)
                /\ UNCHANGED warnings
    /\ fileIdx' = fileIdx + 1
    /\ UNCHANGED <<cursor, args, returned, variant, files, pc, ci, ri, classes, basic_api>>

(***************************************************************************)
(* extract_app_docs.py: Pass 2, analyze_scope.                             *)
(***************************************************************************)
\* imp.endswith(f".{simple_name}")
EndsWithName(imp, simple_name) ==
    Len(imp) >= 2 /\ imp[Len(imp)] = simple_name

\* imp.endswith(".*")
IsWildcard(imp) ==
    Len(imp) >= 2 /\ imp[Len(imp)] = "*"

\* The loop over context_data["imports"], from entry i on.
RECURSIVE ResolveImports(_, _, _, _)
ResolveImports(imports, i, simple_name, api) ==
    IF i > Len(imports) THEN None
    ELSE LET imp == imports[i] IN
         IF EndsWithName(imp, simple_name) THEN imp
         ELSE LET candidate == SubSeq(imp, 1, Len(imp) - 1) \o <<simple_name>> IN
              IF IsWildcard(imp) /\ candidate \in DOMAIN api THEN candidate
              ELSE ResolveImports(imports, i + 1, simple_name, api)

\* resolve_class that never looks at the import list.
resolve_class_noimports(simple_name, context_data, api, lookup) ==
    IF simple_name = "" THEN None
    ELSE LET same_pkg_candidate == context_data.package \o <<simple_name>> IN
         IF same_pkg_candidate \in DOMAIN api THEN same_pkg_candidate
         ELSE IF simple_name \in DOMAIN lookup THEN lookup[simple_name]
         ELSE None

resolve_class(simple_name, context_data, api, lookup) ==
    IF simple_name = "" THEN None
    ELSE LET same_pkg_candidate == context_data.package \o <<simple_name>> IN
         IF same_pkg_candidate \in DOMAIN api THEN same_pkg_candidate
         ELSE LET imported == ResolveImports(context_data.imports, 1, simple_name, api) IN
              IF imported # None THEN imported
              ELSE IF simple_name \in DOMAIN lookup THEN lookup[simple_name]
              ELSE None

\* add_usage without the membership test on the 'uses' side.
add_usage_unguarded(api, target_class, source_class, relationship) ==
    LET a1 == IF target_class \in DOMAIN api
              THEN [api EXCEPT ![target_class].usedBy =
                        IF InSeq(source_class, @) THEN @ ELSE Append(@, source_class)]
              ELSE api
    IN  [a1 EXCEPT ![source_class].uses =
                        IF InSeq(target_class, @) THEN @ ELSE Append(@, target_class)]

\* add_usage that records only the 'usedBy' side.
add_usage_oneway(api, target_class, source_class, relationship) ==
    IF target_class \in DOMAIN api
    THEN [api EXCEPT ![target_class].usedBy =
                        IF InSeq(source_class, @) THEN @ ELSE Append(@, source_class)]
    ELSE api

\* add_usage that appends without looking at the lists.
add_usage_repeating(api, target_class, source_class, relationship) ==
    IF target_class \in DOMAIN api
    THEN LET a1 == [api EXCEPT ![target_class].usedBy = Append(@, source_class)]
         IN  [a1 EXCEPT ![source_class].uses = Append(@, target_class)]
    ELSE api

\* add_usage that puts the new entry at the head of each list.
add_usage_prepending(api, target_class, source_class, relationship) ==
    IF target_class \in DOMAIN api
    THEN LET a1 == [api EXCEPT ![target_class].usedBy =
                        IF InSeq(source_class, @) THEN @ ELSE <<source_class>> \o @]
         IN  [a1 EXCEPT ![source_class].uses =
                        IF InSeq(target_class, @) THEN @ ELSE <<target_class>> \o @]
    ELSE api

\* add_usage that records an edge only for a target nobody uses yet.
add_usage_first_user(api, target_class, source_class, relationship) ==
    IF target_class \in DOMAIN api /\ api[target_class].usedBy = <<>>
    THEN LET a1 == [api EXCEPT ![target_class].usedBy = Append(@, source_class)]
         IN  [a1 EXCEPT ![source_class].uses =
                        IF InSeq(target_class, @) THEN @ ELSE Append(@, target_class)]
    ELSE api

\* api_data after add_usage(target_class, source_class, relationship);
\* the relationship argument is not used by the body.
add_usage(api, target_class, source_class, relationship) ==
    IF target_class \in DOMAIN api
    THEN LET a1 == [api EXCEPT ![target_class].usedBy =
                        IF InSeq(source_class, @) THEN @ ELSE Append(@, source_class)]
         IN  [a1 EXCEPT ![source_class].uses =
                        IF InSeq(target_class, @) THEN @ ELSE Append(@, target_class)]
    ELSE api

\* re.sub(r'[\[\]<>,]', ' ', type_str).split()
BracketTokens == {"[", "]", "<", ">", ","}

CleanType(type_str) == SelectSeq(type_str, LAMBDA t : t \notin BracketTokens)

\* The guard of check_reference before add_usage.
IsForeign(target_full, consumer_name) ==
    target_full # None /\ target_full # consumer_name

RECURSIVE Flatten(_)
Flatten(ss) == IF ss = <<>> THEN <<>> ELSE Head(ss) \o Flatten(Tail(ss))

MemberRef(type_str) == [kind |-> "member", type |-> type_str, name |-> ""]

TypeRefs(types) == [i \in 1..Len(types) |-> MemberRef(types[i])]

\* The references analyze_scope visits for one consumer, in its order:
\* the extends name, then each method's return type and parameter types,
\* then each constructor's parameter types.
ScopeRefs(consumer_data) ==
    (IF consumer_data.extends # ""
     THEN << [kind |-> "extends", type |-> <<>>, name |-> consumer_data.extends] >>
     ELSE <<>>)
    \o Flatten([i \in 1..Len(consumer_data.methods) |->
                  <<MemberRef(consumer_data.methods[i].returnType)>>
                  \o TypeRefs(consumer_data.methods[i].parameters)])
    \o Flatten([i \in 1..Len(consumer_data.constructors) |->
                  TypeRefs(consumer_data.constructors[i].parameters)])

\* First consumer at or after index c that has a reference to visit.
RECURSIVE FirstConsumer(_, _, _)
FirstConsumer(api, order, c) ==
    IF c > Len(order) THEN c
    ELSE IF ScopeRefs(api[order[c]]) # <<>> THEN c
    ELSE FirstConsumer(api, order, c + 1)

\* analyze_scope is called from inside the loop of Pass 1.
Pass1Done_early == fileIdx > 1

\* extract_all: Pass 1 has visited every file.
Pass1Done == fileIdx > Len(files)

\* extract_all calls analyze_scope.
BeginAnalyzeScope ==
    /\ variant = "extract_app_docs"
    /\ pc = "scan"
    /\ Pass1Done
    /\ pc' = "pass2"
    /\ ci' = FirstConsumer(api_data, api_order, 1)
    /\ ri' = 1
    /\ UNCHANGED <<cursor, args, returned, variant, files, fileIdx, api_data, api_order, class_lookup,
                   warnings, classes, basic_api>>

\* Move to the reference after (ci, ri).
Advance ==
    IF ri < Len(ScopeRefs(api_data[api_order[ci]]))
    THEN ci' = ci /\ ri' = ri + 1
    ELSE ci' = FirstConsumer(api_data, api_order, ci + 1) /\ ri' = 1

CurrentRef == ScopeRefs(api_data[api_order[ci]])[ri]

\* analyze_scope, "1. Check inheritance".
CheckInheritance ==
    /\ pc = "pass2"
    /\ ci <= Len(api_order)
    /\ CurrentRef.kind = "extends"
    /\ LET consumer_name == api_order[ci]
           consumer_data == api_data[consumer_name]
           parent_full == resolve_class(consumer_data.extends, consumer_data,
                                        api_data, class_lookup)
       IN  api_data' = IF parent_full # None
                       THEN add_usage(api_data, parent_full, consumer_name, "Extended by")
                       ELSE api_data
    /\ Advance
    /\ UNCHANGED <<cursor, args, returned, variant, files, pc, fileIdx, api_order, class_lookup,
                   warnings, classes, basic_api>>

\* check_reference for one return type or parameter type.
CheckReference ==
    /\ pc = "pass2"
    /\ ci <= Len(api_order)
    /\ CurrentRef.kind = "member"
    /\ LET consumer_name == api_order[ci]
           consumer_data == api_data[consumer_name]
           words == CleanType(CurrentRef.type)
       IN  IF words = <<>>
           THEN \* [0] of an empty list: IndexError leaves extract_all
                /\ pc' = "crashed"
                /\ UNCHANGED <<api_data, ci, ri>>
           ELSE LET target_full == resolve_class(words[1], consumer_data,
                                                 api_data, class_lookup)
                IN  /\ api_data' = IF IsForeign(target_full, consumer_name)
                                   THEN add_usage(api_data, target_full,
                                                  consumer_name, "Used by")
                                   ELSE api_data
                    /\ Advance
                    /\ pc' = pc
    /\ UNCHANGED <<cursor, args, returned, variant, files, fileIdx, api_order, class_lookup,
                   warnings, classes, basic_api>>

\* analyze_scope returns and extract_all returns api_data.
AnalyzeScopeReturn ==
    /\ pc = "pass2"
    /\ ci > Len(api_order)
    /\ pc' = "done"
    /\ UNCHANGED <<cursor, args, returned, variant, files, fileIdx, api_data, api_order, class_lookup,
                   ci, ri, warnings, classes, basic_api>>

(***************************************************************************)
(* extract_api.py: extract_all, one iteration of the loop.                 *)
(***************************************************************************)
\* extract_class_name of extract_api.py
extract_class_name(content) ==
    IF content.className # "" THEN content.className ELSE "Unknown"

\* process_file of extract_api.py
basic_process_file(content, path) ==
    LET class_name == extract_class_name(content) IN
    [package      |-> extract_package(content),
     className    |-> class_name,
     file         |-> path,
     constructors |-> extract_constructors(content, class_name),
     methods      |-> extract_methods(content, class_name)]

ExtractApiStep ==
    /\ variant = "extract_api"
    /\ pc = "scan"
    /\ fileIdx <= Len(files)
    /\ LET content == files[fileIdx] IN
       IF content.raises
       THEN /\ warnings' = Append(warnings, fileIdx)
            /\ UNCHANGED basic_api
       ELSE LET class_info == basic_process_file(content, fileIdx)
                full_class_name == class_info.package \o <<class_info.className>>
            IN  /\ basic_api' = (full_class_name :> class_info) @@ basic_api
                /\ UNCHANGED warnings
    /\ fileIdx' = fileIdx + 1
    /\ UNCHANGED <<cursor, args, returned, variant, files, pc, api_data, api_order, class_lookup,
                   ci, ri, classes>>

ExtractApiReturn ==
    /\ variant = "extract_api"
    /\ pc = "scan"
    /\ fileIdx > Len(files)
    /\ pc' = "done"
    /\ UNCHANGED <<cursor, args, returned, variant, files, fileIdx, api_data, api_order, class_lookup,
                   ci, ri, warnings, classes, basic_api>>

(***************************************************************************)
(* analyze_code.py: parse_directory, one iteration of the loop.            *)
(***************************************************************************)
\* extract_dependencies: imports outside java.*, last component only.
extract_dependencies(content) ==
    LET imports == extract_imports(content)
        kept == SelectSeq(imports, LAMBDA imp : imp[1] # "java")
    IN  [i \in 1..Len(kept) |-> kept[i][Len(kept[i])]]

\* parse_file: the record stored for a file whose class pattern matches.
parse_file(content, file_path) ==
    [name         |-> content.looseName,
     package      |-> content.package,
     file         |-> file_path,
     dependencies |-> extract_dependencies(content)]

ParseDirectoryStep ==
    /\ variant = "analyze_code"
    /\ pc = "scan"
    /\ fileIdx <= Len(files)
    /\ LET content == files[fileIdx] IN
       IF content.raises
       THEN /\ warnings' = Append(warnings, fileIdx)
            /\ UNCHANGED classes
       ELSE IF content.looseName = ""
       THEN UNCHANGED <<warnings, classes>>
       ELSE LET full_name == content.package \o <<content.looseName>>
            IN  /\ classes' = (full_name :> parse_file(content, fileIdx)) @@ classes
                /\ UNCHANGED warnings
    /\ fileIdx' = fileIdx + 1
    /\ UNCHANGED <<cursor, args, returned, variant, files, pc, api_data, api_order, class_lookup,
                   ci, ri, basic_api>>

ParseDirectoryReturn ==
    /\ variant = "analyze_code"
    /\ pc = "scan"
    /\ fileIdx > Len(files)
    /\ pc' = "done"
    /\ UNCHANGED <<cursor, args, returned, variant, files, fileIdx, api_data, api_order, class_lookup,
                   ci, ri, warnings, classes, basic_api>>

Next ==
    \/ Pass1Step
    \/ BeginAnalyzeScope
    \/ CheckInheritance
    \/ CheckReference
    \/ AnalyzeScopeReturn
    \/ ExtractApiStep
    \/ ExtractApiReturn
    \/ ParseDirectoryStep
    \/ ParseDirectoryReturn

Spec == Init /\ [][Next]_vars
(***************************************************************************)
(* Properties of the usage graph (extract_app_docs.py).                    *)
(***************************************************************************)
Keys == DOMAIN api_data

\* The name a reference of a consumer resolves to (None when the type
\* string has no word).
RefTarget(ref, consumer_data) ==
    IF ref.kind = "extends"
    THEN resolve_class(ref.name, consumer_data, api_data, class_lookup)
    ELSE IF CleanType(ref.type) = <<>> THEN None
    ELSE resolve_class(CleanType(ref.type)[1], consumer_data, api_data, class_lookup)

AtRef == pc = "pass2" /\ ci <= Len(api_order)

SomeEdge == \E k \in Keys : api_data[k].uses # <<>>

\* C1: after extract_all has finished, no class is in its own 'uses' list
\* or in its own 'usedBy' list.
C1_NoSelfEdge ==
    pc = "done" =>
        \A k \in Keys : ~InSeq(k, api_data[k].uses) /\ ~InSeq(k, api_data[k].usedBy)

EndpointsAreKeys ==
    \A k \in Keys :
        /\ \A i \in 1..Len(api_data[k].uses) : api_data[k].uses[i] \in Keys
        /\ \A i \in 1..Len(api_data[k].usedBy) : api_data[k].usedBy[i] \in Keys

\* The step about to be taken resolves its reference to a name that is not
\* a key of api_data.
DanglingStep ==
    /\ AtRef
    /\ LET target == RefTarget(CurrentRef, api_data[api_order[ci]])
       IN  target # None /\ target \notin Keys

\* C2: in every state every entry of every 'uses' and 'usedBy' list is a key
\* of api_data, and a step whose reference resolves to a name that is not a
\* key changes no list and adds no record.
C2_EndpointsAreKeys ==
    [](EndpointsAreKeys) /\ [][DanglingStep => api_data' = api_data]_vars

\* C2 witness: extract_all has finished, some consumer had a reference that
\* resolves to a name outside api_data, and the graph has an edge.
C2_Witness ==
    /\ pc = "done"
    /\ SomeEdge
    /\ \E k \in Keys : \E i \in 1..Len(ScopeRefs(api_data[k])) :
          LET target == RefTarget(ScopeRefs(api_data[k])[i], api_data[k])
          IN  target # None /\ target \notin Keys

\* C3: the usage graph is symmetric in every state: T is in S's 'uses' list
\* exactly when S is in T's 'usedBy' list.
C3_Symmetric ==
    \A S \in Keys : \A T \in Keys :
        InSeq(T, api_data[S].uses) <=> InSeq(S, api_data[T].usedBy)

\* C3 witness: Pass 2 is under way and an edge between two different
\* classes has been recorded.
C3_Witness ==
    /\ pc = "pass2"
    /\ \E S \in Keys : \E T \in Keys \ {S} : InSeq(T, api_data[S].uses)

SimpleNames == {"A", "B", "String"}

\* The import statements of the file a record was made from.
ImportStmtsOf(consumer_data) == files[consumer_data.file].importStmts

\* The candidates of the four rules, in the order of the rules.
RuleCandidates(simple_name, consumer_data) ==
    LET stmts == ImportStmtsOf(consumer_data)
        exact == SelectSeq(stmts, LAMBDA imp : EndsWithName(imp, simple_name))
        wild  == SelectSeq(stmts, LAMBDA imp : IsWildcard(imp))
    IN  << consumer_data.package \o <<simple_name>> >>
        \o exact
        \o [i \in 1..Len(wild) |-> SubSeq(wild[i], 1, Len(wild[i]) - 1) \o <<simple_name>>]
        \o (IF simple_name \in DOMAIN class_lookup
            THEN << class_lookup[simple_name] >> ELSE <<>>)

FirstPresent(cands) ==
    IF \E i \in 1..Len(cands) : cands[i] \in Keys
    THEN cands[CHOOSE i \in 1..Len(cands) :
                  /\ cands[i] \in Keys
                  /\ \A j \in 1..(i - 1) : cands[j] \notin Keys]
    ELSE None

\* The declaration a resolved name stands for, None when it is dropped.
Effective(target) == IF target \in Keys THEN target ELSE None

\* C4: once Pass 1 is over, every simple name resolves, for every consumer,
\* to the candidate of the first of the rules same package, exact import,
\* wildcard import, global lookup whose candidate is a key of api_data.
C4_RuleOrder ==
    pc \in {"pass2", "done"} =>
        \A k \in Keys : \A n \in SimpleNames :
            Effective(resolve_class(n, api_data[k], api_data, class_lookup))
                = FirstPresent(RuleCandidates(n, api_data[k]))

\* Some method of the class has return type b or a parameter of type b.
HasMemberOfType(consumer_data, b) ==
    \E i \in 1..Len(consumer_data.methods) :
        \/ consumer_data.methods[i].returnType = <<b>>
        \/ InSeq(<<b>>, consumer_data.methods[i].parameters)

\* Entry i of a's import list is an explicit import of a declared class
\* that a method of a names.
ImportsAndNames(a, i) ==
    LET imp == api_data[a].imports[i] IN
    /\ Len(imp) >= 2
    /\ imp \in Keys
    /\ HasMemberOfType(api_data[a], imp[Len(imp)])

\* Nothing resolves the simple name of import i of a before that import:
\* a's package declares no class of that name and no earlier import ends
\* with it.
ImportDecides(a, i) ==
    LET imp == api_data[a].imports[i]
        b   == imp[Len(imp)]
    IN  /\ api_data[a].package \o <<b>> \notin Keys
        /\ \A j \in 1..(i - 1) : ~EndsWithName(api_data[a].imports[j], b)

EdgeRecorded(a, t) == InSeq(a, api_data[t].usedBy) /\ InSeq(t, api_data[a].uses)

\* C5 as stated: after extract_all, a class that explicitly imports a
\* declared class pkg2.B and has a method with return type or parameter
\* type B is in pkg2.B's 'usedBy' list, and pkg2.B is in its 'uses' list.
C5_Orig ==
    pc = "done" =>
        \A a \in Keys : \A i \in 1..Len(api_data[a].imports) :
            ImportsAndNames(a, i) => EdgeRecorded(a, api_data[a].imports[i])

\* C5 amended: the same, provided the class's own package declares no class
\* named B and no earlier entry of its import list ends with .B.
C5_ImportedTypeUsed ==
    pc = "done" =>
        \A a \in Keys : \A i \in 1..Len(api_data[a].imports) :
            (ImportsAndNames(a, i) /\ ImportDecides(a, i))
                => EdgeRecorded(a, api_data[a].imports[i])

\* C5 witness: extract_all has finished for a class whose explicit import
\* decides the resolution, while another package declares the same simple
\* name later, so that the global lookup names a different class.
C5_Witness ==
    /\ pc = "done"
    /\ \E a \in Keys : \E i \in 1..Len(api_data[a].imports) :
          LET imp == api_data[a].imports[i] IN
          /\ ImportsAndNames(a, i)
          /\ ImportDecides(a, i)
          /\ class_lookup[imp[Len(imp)]] # imp
          /\ EdgeRecorded(a, imp)

\* The class extends a name that its own package declares.
ExtendsSamePackage(foo) ==
    /\ api_data[foo].extends # ""
    /\ api_data[foo].package \o <<api_data[foo].extends>> \in Keys

ParentOf(foo) == api_data[foo].package \o <<api_data[foo].extends>>

\* C6: a class that extends a class of its own package ends with exactly
\* one entry for it in the parent's 'usedBy' and one entry for the parent in
\* its own 'uses', and what add_usage records for the Extends relationship
\* differs from what it records for a Uses relationship.
C6_OneExtendsEdge ==
    \A foo \in Keys :
        ExtendsSamePackage(foo) =>
            /\ pc = "done" =>
                  /\ Count(foo, api_data[ParentOf(foo)].usedBy) = 1
                  /\ Count(ParentOf(foo), api_data[foo].uses) = 1
            /\ pc = "pass2" =>
                  add_usage(api_data, ParentOf(foo), foo, "Extended by")
                      # add_usage(api_data, ParentOf(foo), foo, "Used by")

\* Names of primitive and built-in types.
Denylist ==
    {"String", "int", "Integer", "List", "Math", "System", "ArrayList",
     "Float", "Object", "Exception"}

\* C7: a check_reference step for a type whose base name is a primitive or
\* built-in type name adds no entry to any list.
C7_NoBuiltinEdge ==
    [][(/\ AtRef
        /\ CurrentRef.kind = "member"
        /\ CleanType(CurrentRef.type) # <<>>
        /\ CleanType(CurrentRef.type)[1] \in Denylist)
       => api_data' = api_data]_vars

Stored(i) == ~process_file_fails(files[i])

KeyOf(i) == extract_package(files[i]) \o <<files[i].className>>

NoEdges == \A k \in Keys : api_data[k].uses = <<>> /\ api_data[k].usedBy = <<>>

Pass1Complete ==
    /\ fileIdx > Len(files)
    /\ \A i \in 1..Len(files) :
          Stored(i) => /\ KeyOf(i) \in Keys
                       /\ files[i].className \in DOMAIN class_lookup

\* C8: no edge is recorded while Pass 1 runs; when Pass 2 runs Pass 1 has
\* visited every file and api_data and class_lookup hold every declaration
\* found; no step of Pass 2 changes the keys of api_data or class_lookup.
C8_PassOrder ==
    /\ []((variant = "extract_app_docs" /\ pc = "scan") => NoEdges)
    /\ []((variant = "extract_app_docs" /\ pc # "scan") => Pass1Complete)
    /\ [][pc = "pass2" => /\ DOMAIN api_data' = DOMAIN api_data
                          /\ api_order' = api_order
                          /\ class_lookup' = class_lookup]_vars

\* C8 witness: Pass 2 has recorded an edge over a model of several classes.
C8_Witness ==
    /\ pc = "pass2"
    /\ Len(api_order) >= 2
    /\ ri > 1
    /\ SomeEdge

\* The files before index n that raise, in order.
RaisedBefore(n) ==
    SelectSeq([i \in 1..(n - 1) |-> i], LAMBDA i : files[i].raises)

Scanning == variant \in {"extract_app_docs", "analyze_code"}

FailureIsolated ==
    /\ warnings = RaisedBefore(fileIdx)
    /\ \A k \in Keys : ~files[api_data[k].file].raises
    /\ \A k \in DOMAIN classes : ~files[classes[k].file].raises
    /\ pc # "scan" =>
          /\ fileIdx = Len(files) + 1
          /\ variant = "extract_app_docs" =>
                \A i \in 1..Len(files) : Stored(i) => KeyOf(i) \in Keys
          /\ variant = "analyze_code" =>
                \A i \in 1..Len(files) :
                    (~files[i].raises /\ files[i].looseName # "")
                        => files[i].package \o <<files[i].looseName>> \in DOMAIN classes

\* C9: a file that raises contributes no record, leaves the stored entries
\* unchanged, is named by one warning, and the loop goes on to the next
\* file, so that every other file is processed; in extract_app_docs.py and
\* in analyze_code.py.
C9_FailureIsolated ==
    /\ [](Scanning => FailureIsolated)
    /\ [][(Scanning /\ pc = "scan" /\ fileIdx <= Len(files) /\ files[fileIdx].raises)
          => /\ api_data' = api_data
             /\ api_order' = api_order
             /\ class_lookup' = class_lookup
             /\ classes' = classes
             /\ pc' = "scan"
             /\ fileIdx' = fileIdx + 1
             /\ warnings' = Append(warnings, fileIdx)]_vars

\* C9 witness: extract_all has finished on a list whose first file raised
\* and whose later files are in the model.
C9_Witness ==
    /\ variant = "extract_app_docs"
    /\ pc = "done"
    /\ Len(files) >= 2
    /\ files[1].raises
    /\ warnings = <<1>>
    /\ \E k \in Keys : api_data[k].file > 1

\* C10: a file in which the declaration pattern finds nothing is the source
\* of no record of api_data (either extractor), of classes, or of an entry
\* of class_lookup.
C10_NoDeclExcluded ==
    \A i \in 1..Len(files) :
        /\ (~files[i].raises /\ files[i].className = "") =>
              /\ \A k \in Keys : api_data[k].file # i
              /\ \A k \in DOMAIN basic_api : basic_api[k].file # i
              /\ \A n \in DOMAIN class_lookup : api_data[class_lookup[n]].file # i
        /\ (~files[i].raises /\ files[i].looseName = "") =>
              \A k \in DOMAIN classes : classes[k].file # i

\* The stored files that declare simple name n, as indices of the file list.
Declaring(n) == {i \in 1..Len(files) : Stored(i) /\ files[i].className = n}

LastOf(S) == CHOOSE i \in S : \A j \in S : j <= i

\* Neither the same-package rule nor an import decides simple name n for
\* the consumer: resolve_class reaches the global lookup.
ReachesGlobalLookup(n, consumer_data) ==
    /\ consumer_data.package \o <<n>> \notin Keys
    /\ ResolveImports(consumer_data.imports, 1, n, api_data) = None

RefsTo(k, t) ==
    Cardinality({r \in 1..Len(ScopeRefs(api_data[k])) :
                    RefTarget(ScopeRefs(api_data[k])[r], api_data[k]) = t})

\* C12: in every state no 'uses' list and no 'usedBy' list holds the same
\* fully-qualified name twice.
C12_NoDuplicateEdge ==
    \A k \in Keys : \A t \in Keys :
        Count(t, api_data[k].uses) <= 1 /\ Count(t, api_data[k].usedBy) <= 1

\* C12 witness: a class with several references to the same other class
\* (its supertype and a member type among them) has been analyzed.
C12_Witness ==
    /\ pc = "done"
    /\ \E k \in Keys : \E t \in Keys :
          /\ t # k
          /\ api_data[k].extends # ""
          /\ resolve_class(api_data[k].extends, api_data[k], api_data, class_lookup) = t
          /\ RefsTo(k, t) >= 2
          /\ Count(t, api_data[k].uses) = 1
          /\ Count(k, api_data[t].usedBy) = 1
\* Sequence s is an initial part of sequence t.
IsPrefix(s, t) == Len(s) <= Len(t) /\ SubSeq(t, 1, Len(s)) = s

\* The fields of a record that Pass 1 fills.
OwnFields(r) ==
    <<r.package, r.className, r.file, r.line, r.extends, r.implements,
      r.imports, r.constructors, r.methods>>

\* C21: a step of Pass 2 leaves the keys of api_data, class_lookup and the
\* fields package, className, file, line, extends, implements, imports,
\* constructors and methods of every record as they are, and each uses and
\* usedBy list after the step starts with the list before the step.
C21_Pass2AppendOnly ==
    [][pc = "pass2" =>
          /\ DOMAIN api_data' = DOMAIN api_data
          /\ api_order' = api_order
          /\ class_lookup' = class_lookup
          /\ \A k \in Keys :
                /\ OwnFields(api_data'[k]) = OwnFields(api_data[k])
                /\ IsPrefix(api_data[k].uses, api_data'[k].uses)
                /\ IsPrefix(api_data[k].usedBy, api_data'[k].usedBy)]_vars

\* C21 witness: Pass 2 has appended to lists that already had an entry.
C21_Witness ==
    /\ pc = "done"
    /\ \E k \in Keys : Len(api_data[k].uses) >= 2
    /\ \E k \in Keys : Len(api_data[k].usedBy) >= 2

(***************************************************************************)
(* Functions called on their own.  A text in which the code looks for      *)
(* substrings is the sequence of its fragments: the body                   *)
(* "return Math.abs" is <<"return", "Math.">> and the name "getName"       *)
(* is <<"get", "Name">>; `x in text` is membership of fragment x,          *)
(* text.startswith(x) is a test of the first fragment.  A text that is     *)
(* scanned character by character is the sequence of its characters.       *)
(***************************************************************************)

\* In these runs no script scans a directory: the state of the scanners
\* stays as constructed.
NoScan ==
    /\ files = <<>>
    /\ pc = "call"
    /\ fileIdx = 1
    /\ api_data = EmptyMap
    /\ api_order = <<>>
    /\ class_lookup = EmptyMap
    /\ ci = 0
    /\ ri = 0
    /\ warnings = <<>>
    /\ classes = EmptyMap
    /\ basic_api = EmptyMap
    /\ cursor = EmptyMap

scanVars == <<variant, files, pc, fileIdx, api_data, api_order, class_lookup,
              ci, ri, warnings, classes, basic_api, cursor>>

\* The permutations of a finite set, as sequences without repetition.
Orders(S) ==
    {f \in [1..Cardinality(S) -> S] : \A i, j \in 1..Cardinality(S) : f[i] = f[j] => i = j}

\* " ".join(parts) of a list of texts.
RECURSIVE Join(_)
Join(parts) ==
    IF parts = <<>> THEN <<>>
    ELSE IF Len(parts) = 1 THEN parts[1]
    ELSE parts[1] \o <<" ">> \o Join(Tail(parts))

(***************************************************************************)
(* analyze_code.py: JavaParser.infer_method_logic.                         *)
(***************************************************************************)
\* str.lower() of a fragment.
LowerFragment(t) ==
    CASE t = "Add" -> "add"
      [] t = "List" -> "list"
      [] t = "Remove" -> "remove"
      [] OTHER -> t

lower(text) == [i \in 1..Len(text) |-> LowerFragment(text[i])]

\* re.findall(r'\b([A-Z]\w+)\b', body): the capitalised words of a fragment.
CapitalWords(t) ==
    CASE t = "System.out.println" -> {"System"}
      [] t = "Math." -> {"Math"}
      [] t \in {"List", "Foo", "Bar"} -> {t}
      [] OTHER -> {}

ignore_list ==
    {"String", "Math", "System", "List", "ArrayList", "Float", "Integer",
     "Object", "Exception", "Override", "Deprecated"}

\* The sentences appended to desc by the rules, in the order of the code.
rule_sentences(name, body, return_type) ==
    (IF InSeq("System.out.println", body)
     THEN << <<"Logs status to console.">> >> ELSE <<>>)
    \o (IF InSeq("commandManager.execute", body) \/ InSeq("cmdMgr.execute", body)
        THEN << <<"Dispatches a command for execution.">> >> ELSE <<>>)
    \o (IF InSeq("notify", lower(name)) \/ InSeq("fire", lower(name))
        THEN << <<"Notifies registered listeners.">> >> ELSE <<>>)
    \o (IF InSeq("return", body) /\ return_type # "void"
        THEN IF InSeq("calculated", body) \/ InSeq("Math.", body)
             THEN << <<"Computes and returns the result.">> >>
             ELSE << <<"Returns the requested value.">> >>
        ELSE <<>>)
    \o (IF InSeq("this.", body) /\ InSeq("=", body)
        THEN << <<"Updates internal state properties.">> >> ELSE <<>>)
    \o (IF InSeq("add", lower(name)) /\ InSeq("list", lower(body))
        THEN << <<"Adds item to internal collection.">> >> ELSE <<>>)
    \o (IF InSeq("remove", lower(name))
        THEN << <<"Removes item from collection.">> >> ELSE <<>>)

\* The fallback that ignores the prefix of the name.
fallback_description_generic(name) == <<"Executes custom logic.">>

\* The branch `if not desc:` of infer_method_logic.
fallback_description(name) ==
    IF name # <<>> /\ name[1] = "get" THEN <<"Retrieves ">> \o Tail(name) \o <<".">>
    ELSE IF name # <<>> /\ name[1] = "set" THEN <<"Sets ">> \o Tail(name) \o <<".">>
    ELSE IF name # <<>> /\ name[1] = "is" THEN <<"Checks if ">> \o Tail(name) \o <<".">>
    ELSE <<"Executes custom logic.">>

\* The elements of `connections` before list(set(connections)).
connection_names(name, body) ==
    (IF InSeq("commandManager.execute", body) \/ InSeq("cmdMgr.execute", body)
     THEN {"CommandManager"} ELSE {})
    \cup {cls \in UNION {CapitalWords(body[i]) : i \in 1..Len(body)} :
             cls \notin ignore_list /\ <<cls>> # name}

\* The values infer_method_logic can return: list(set(connections)) lists
\* a set of strings in the order of their hashes, which differs from one
\* interpreter process to the next.
infer_method_logic(name, body, params, return_type) ==
    LET desc == rule_sentences(name, body, return_type)
        conns == connection_names(name, body)
    IN  {[description |-> IF desc = <<>> THEN fallback_description(name) ELSE Join(desc),
          connections |-> c] : c \in Orders(conns)}

\* Largest number of fragments of a method body.
MaxFragments == 2

\* Largest number of calls on the same arguments.
MaxCalls == 2

BodyFragments ==
    {"return", "this.", "=", "System.out.println", "commandManager.execute",
     "cmdMgr.execute", "Math.", "calculated", "List", "Foo", "Bar"}

Bodies == UNION {[1..n -> BodyFragments] : n \in 0..MaxFragments}

\* getName, setSize, isEmpty, run, addItem, getAddress, notifyAll,
\* fireEvent, removeItem, Foo, issue, get
MethodNames ==
    {<<"get", "Name">>, <<"set", "Size">>, <<"is", "Empty">>, <<"run">>,
     <<"add", "Item">>, <<"get", "Add", "ress">>, <<"notify", "All">>,
     <<"fire", "Event">>, <<"remove", "Item">>, <<"Foo">>, <<"is", "sue">>,
     <<"get">>}

InitInfer ==
    /\ variant = "infer_method_logic"
    /\ NoScan
    /\ args \in [name : MethodNames, body : Bodies, params : {<<>>},
                 return_type : {"void", "int"}]
    /\ returned = <<>>

\* One run of the interpreter calls infer_method_logic(name, body, params,
\* return_type).
CallInferMethodLogic ==
    /\ variant = "infer_method_logic"
    /\ Len(returned) < MaxCalls
    /\ \E r \in infer_method_logic(args.name, args.body, args.params, args.return_type) :
          returned' = Append(returned, r)
    /\ UNCHANGED <<args, scanVars>>

NextInfer == CallInferMethodLogic

SpecInfer == InitInfer /\ [][NextInfer]_vars

\* C13: two runs on the same input give the same result, the order of the
\* `connections` list of a method included.
C13_RerunIdentical ==
    (variant = "infer_method_logic" /\ Len(returned) >= 2) =>
        returned[1] = returned[2]

\* C18: the description is the fallback exactly when no rule fires: for a
\* name that starts with get it is "Retrieves <rest>.", with set
\* "Sets <rest>.", with is "Checks if <rest>.", for any other name
\* "Executes custom logic."; when a rule fires the description is the text
\* of the rules that fired; the description is never empty.
C18_FallbackExactly ==
    variant = "infer_method_logic" =>
        \A i \in 1..Len(returned) :
            LET name == args.name
                body == args.body
                d == returned[i].description
                has(x) == \E j \in 1..Len(body) : body[j] = x
                inName(x) == \E j \in 1..Len(name) : name[j] = x
                fires ==
                    \/ has("System.out.println")
                    \/ has("commandManager.execute") \/ has("cmdMgr.execute")
                    \/ inName("notify") \/ inName("fire")
                    \/ has("return") /\ args.return_type # "void"
                    \/ has("this.") /\ has("=")
                    \/ (inName("add") \/ inName("Add")) /\ (has("list") \/ has("List"))
                    \/ inName("remove")
                rest == SubSeq(name, 2, Len(name))
                isFallback ==
                    \/ name[1] = "get" /\ d = <<"Retrieves ">> \o rest \o <<".">>
                    \/ name[1] = "set" /\ d = <<"Sets ">> \o rest \o <<".">>
                    \/ name[1] = "is" /\ d = <<"Checks if ">> \o rest \o <<".">>
                    \/ name[1] \notin {"get", "set", "is"} /\ d = <<"Executes custom logic.">>
            IN  /\ fires <=> ~isFallback
                /\ d # <<>>

\* C18 witness: getName with a body on which no rule fires and a non-void
\* return type has returned "Retrieves Name.".
C18_Witness ==
    /\ variant = "infer_method_logic"
    /\ args.name = <<"get", "Name">>
    /\ args.body = <<"Foo", "=">>
    /\ args.return_type = "int"
    /\ Len(returned) >= 1
    /\ returned[1].description = <<"Retrieves ", "Name", ".">>

(***************************************************************************)
(* analyze_code.py: JavaParser.extract_body and JavaParser.extract_methods.*)
(* The content is one declaration line, given by the words before its      *)
(* parameter list, followed by the characters of the file from the         *)
(* opening brace of the declaration to the end of the file.                *)
(***************************************************************************)
Whitespace == {" ", "\n"}

RECURSIVE lstrip(_)
lstrip(text) ==
    IF text # <<>> /\ Head(text) \in Whitespace THEN lstrip(Tail(text)) ELSE text

RECURSIVE rstrip(_)
rstrip(text) ==
    IF text # <<>> /\ text[Len(text)] \in Whitespace
    THEN rstrip(SubSeq(text, 1, Len(text) - 1))
    ELSE text

\* str.strip()
strip(text) == lstrip(rstrip(text))

\* The value of `stack` after the iteration of the loop on index i.
StackAt(content, start_index, i) ==
    Cardinality({j \in start_index..i : content[j] = "{"})
        - Cardinality({j \in start_index..i : content[j] = "}"})

\* The index of the iteration at which the loop of extract_body leaves
\* (`found_start and stack == 0`), or the last index when it never does.
LastScanned(content, start_index) ==
    LET breaks == {i \in start_index..Len(content) :
                      /\ \E j \in start_index..i : content[j] = "{"
                      /\ StackAt(content, start_index, i) = 0}
    IN  IF breaks = {} THEN Len(content)
        ELSE CHOOSE i \in breaks : \A k \in breaks : i <= k

\* extract_body(content, start_index); start_index counts from 1 here.
extract_body(content, start_index) ==
    LET body == SubSeq(content, start_index, LastScanned(content, start_index)) IN
    IF body # <<>> /\ Head(body) = "{" /\ body[Len(body)] = "}"
    THEN strip(SubSeq(body, 2, Len(body) - 1))
    ELSE body

Visibilities == {"public", "protected", "private"}

\* (?:static\s+)?(?:final\s+)?(?:synchronized\s+)? matches exactly these words.
IsModifierRun(words) ==
    words \in {<<>>, <<"static">>, <<"final">>, <<"synchronized">>,
               <<"static", "final">>, <<"static", "synchronized">>,
               <<"final", "synchronized">>,
               <<"static", "final", "synchronized">>}

\* The groups of method_pattern on a declaration: the name is the last
\* word before '(', the return type the word before it, and the words
\* before that are the visibility and the modifiers; the empty alternative
\* of the visibility group is taken when the first one fails.
method_match(decl) ==
    LET w == decl.words
        n == Len(w)
    IN  IF n >= 2 /\ w[1] \in Visibilities /\ IsModifierRun(SubSeq(w, 2, n - 1))
        THEN [matched |-> TRUE, visibility |-> w[1], return_type |-> w[n]]
        ELSE IF n >= 1 /\ IsModifierRun(SubSeq(w, 1, n - 1))
        THEN [matched |-> TRUE, visibility |-> "package-private", return_type |-> w[n]]
        ELSE [matched |-> FALSE, visibility |-> "", return_type |-> ""]

\* The groups of constructor_pattern on a declaration.
constructor_match(decl, class_name) ==
    IF decl.name = class_name /\ decl.words = <<>>
    THEN [matched |-> TRUE, visibility |-> "package-private"]
    ELSE IF decl.name = class_name /\ Len(decl.words) = 1 /\ decl.words[1] \in Visibilities
    THEN [matched |-> TRUE, visibility |-> decl.words[1]]
    ELSE [matched |-> FALSE, visibility |-> ""]

\* The slice text[:n].
Prefix(text, n) == SubSeq(text, 1, IF Len(text) < n THEN Len(text) ELSE n)

\* Number of characters of a body kept in codeSnippet.
SnippetLength == 200

\* The names extract_methods of JavaParser skips.
skipped_names == {<<"if">>, <<"for">>, <<"while">>, <<"switch">>, <<"catch">>}

\* The first loop of extract_methods: the lists of records it can append
\* for the declaration.
method_pass(content, class_name) ==
    LET m == method_match(content.decl)
        body == extract_body(content.text, 1)
    IN  IF ~m.matched \/ content.decl.name \in skipped_names THEN {<<>>}
        ELSE {<< [name        |-> content.decl.name,
                  visibility  |-> m.visibility,
                  returnType  |-> m.return_type,
                  params      |-> content.decl.params,
                  description |-> inference.description,
                  connections |-> inference.connections,
                  codeSnippet |-> IF Len(body) > SnippetLength
                                  THEN Prefix(body, SnippetLength) \o <<"...">>
                                  ELSE body] >> :
              inference \in infer_method_logic(content.decl.name, body,
                                               content.decl.params, m.return_type)}

\* The second loop of extract_methods, "Separate pass for constructors".
constructor_pass(content, class_name) ==
    LET m == constructor_match(content.decl, class_name)
        body == extract_body(content.text, 1)
    IN  IF ~m.matched THEN {<<>>}
        ELSE {<< [name        |-> class_name,
                  visibility  |-> m.visibility,
                  returnType  |-> "constructor",
                  params      |-> content.decl.params,
                  description |-> <<"Initializes ">> \o class_name \o <<". ">>
                                  \o inference.description,
                  connections |-> inference.connections,
                  codeSnippet |-> Prefix(body, SnippetLength)] >> :
              inference \in infer_method_logic(class_name, body,
                                               content.decl.params, "constructor")}

\* The lists JavaParser.extract_methods(content, class_name) can return.
parser_extract_methods(content, class_name) ==
    {ms \o cs : ms \in method_pass(content, class_name),
                cs \in constructor_pass(content, class_name)}

\* Largest number of characters after the opening brace in the short texts.
MaxChars == 4

Alphabet == {"{", "}", "\"", "/", "*", "\n", "x"}

ShortTexts == {<<"{">> \o t : t \in UNION {[1..n -> Alphabet] : n \in 0..MaxChars}}

\* { followed by n characters x y x y ... and }
LongText(n) == <<"{">> \o [i \in 1..n |-> IF i % 2 = 1 THEN "x" ELSE "y"] \o <<"}">>

\* {x//}<newline>x}   and   {x/*}*/x}
Text_LineComment == <<"{", "x", "/", "/", "}", "\n", "x", "}">>

Text_BlockComment == <<"{", "x", "/", "*", "}", "*", "/", "x", "}">>

Texts ==
    ShortTexts
    \cup {LongText(n) : n \in (SnippetLength - 2)..(SnippetLength + 2)}
    \cup {Text_LineComment, Text_BlockComment}

Decl(words, name) == [words |-> words, name |-> name, params |-> <<>>]

\* void run(   public static int getName(   public A(   A(   private A(
\* public Inner(   else if(   int f(   List<B> catch(
Declarations ==
    {Decl(<<"void">>, <<"run">>),
     Decl(<<"public", "static", "int">>, <<"get", "Name">>),
     Decl(<<"public">>, <<"A">>),
     Decl(<<>>, <<"A">>),
     Decl(<<"private">>, <<"A">>),
     Decl(<<"public">>, <<"Inner">>),
     Decl(<<"else">>, <<"if">>),
     Decl(<<"int">>, <<"f">>),
     Decl(<<"x", "int">>, <<"f">>)}

InitParser ==
    /\ variant = "JavaParser.extract_methods"
    /\ NoScan
    /\ args \in [content : [decl : Declarations, text : Texts], class_name : {<<"A">>}]
    /\ returned = <<>>

\* extract_methods(content, class_name) is called and returns its list.
CallExtractMethods ==
    /\ variant = "JavaParser.extract_methods"
    /\ returned = <<>>
    /\ \E ms \in parser_extract_methods(args.content, args.class_name) :
          returned' = <<ms>>
    /\ UNCHANGED <<args, scanVars>>

NextParser == CallExtractMethods

SpecParser == InitParser /\ [][NextParser]_vars

ParserReturned == variant = "JavaParser.extract_methods" /\ returned # <<>>

(***************************************************************************)
(* Properties of JavaParser.extract_body and JavaParser.extract_methods.   *)
(***************************************************************************)
\* The index of the closing brace that brings the depth counted over code
\* braces back to zero, scanning from index i in lexical mode `mode`
\* ("code", "string", "line", "block"); 0 when there is none.
RECURSIVE CodeBalance(_, _, _, _)
CodeBalance(text, i, mode, depth) ==
    IF i > Len(text) THEN 0
    ELSE LET c == text[i]
             two == IF i < Len(text) THEN <<c, text[i + 1]>> ELSE <<c>>
         IN  CASE mode = "string" ->
                    CodeBalance(text, i + 1, IF c = "\"" THEN "code" ELSE "string", depth)
               [] mode = "line" ->
                    CodeBalance(text, i + 1, IF c = "\n" THEN "code" ELSE "line", depth)
               [] mode = "block" ->
                    IF two = <<"*", "/">> THEN CodeBalance(text, i + 2, "code", depth)
                    ELSE CodeBalance(text, i + 1, "block", depth)
               [] OTHER ->
                    IF c = "\"" THEN CodeBalance(text, i + 1, "string", depth)
                    ELSE IF two = <<"/", "/">> THEN CodeBalance(text, i + 2, "line", depth)
                    ELSE IF two = <<"/", "*">> THEN CodeBalance(text, i + 2, "block", depth)
                    ELSE IF c = "{" THEN CodeBalance(text, i + 1, "code", depth + 1)
                    ELSE IF c = "}" THEN (IF depth = 1 THEN i
                                          ELSE CodeBalance(text, i + 1, "code", depth - 1))
                    ELSE CodeBalance(text, i + 1, "code", depth)

\* C14: when the braces of the code regions balance, the body that
\* extract_body returns for a record (its codeSnippet) is the text between
\* the opening brace and that balancing brace: a brace in a string
\* literal, a line comment or a block comment does not count.  Stated for
\* the texts of at most nine characters.
C14_CodeBracesOnly ==
    ParserReturned =>
        LET text == args.content.text
            close == IF Len(text) <= Len(Text_BlockComment)
                     THEN CodeBalance(text, 1, "code", 0) ELSE 0
            between == strip(SubSeq(text, 2, close - 1))
        IN  (Len(text) <= Len(Text_BlockComment) /\ close > 0) =>
                \A i \in 1..Len(returned[1]) :
                    returned[1][i].codeSnippet = between

\* The depth never returns to zero on the text, whether every brace is
\* counted or only the braces of the code regions.
NeverBalanced(text) ==
    /\ \A i \in 1..Len(text) : StackAt(text, 1, i) # 0
    /\ CodeBalance(text, 1, "code", 0) = 0

\* C15: when the depth never returns to zero, extract_methods returns no
\* method record and no constructor record for the declaration.
C15_UnbalancedDropped ==
    (ParserReturned /\ NeverBalanced(args.content.text)) => returned[1] = <<>>

\* The characters a return type must not contain.
StructuralChars == {"{", "}", ";", "*", "/"}

ControlNames ==
    {<<"if">>, <<"for">>, <<"while">>, <<"switch">>, <<"case">>, <<"try">>,
     <<"catch">>, <<"finally">>, <<"do">>}

\* C19: every method record of JavaParser.extract_methods has a name that
\* is no control keyword, a return type that is no visibility keyword, is
\* not the name and has no structural character, and a name equal to the
\* class name appears only in a constructor record.
C19_RejectionRules ==
    ParserReturned =>
        \A i \in 1..Len(returned[1]) :
            LET r == returned[1][i] IN
            r.returnType # "constructor" =>
                /\ r.name \notin ControlNames
                /\ r.returnType \notin Visibilities
                /\ <<r.returnType>> # r.name
                /\ r.returnType \notin StructuralChars
                /\ r.name # args.class_name

\* C20: in every record, of a method or of a constructor, codeSnippet is
\* the whole body when it has at most 200 characters and else its first
\* 200 characters followed by the marker "...".
C20_SnippetTruncation ==
    ParserReturned =>
        \A i \in 1..Len(returned[1]) :
            LET body == extract_body(args.content.text, 1)
                snippet == returned[1][i].codeSnippet
            IN  IF Len(body) <= 200 THEN snippet = body
                ELSE snippet = SubSeq(body, 1, 200) \o <<"...">>

(***************************************************************************)
(* extract_app_docs.py: extract_javadoc, called by extract_methods.        *)
(* The content is the sequence of the lines of the file up to and          *)
(* including the line of one method signature; a line is the sequence of   *)
(* the fragments of its stripped text, so that a blank line is <<>>.       *)
(***************************************************************************)
Blank == <<>>

\* "/**", " * Desc", " * @param a the a", " * @return the r", " */",
\* "int x;", "@Override", "public int foo(int a) {"
OpenLine == <<"/**">>

TextLine == <<"*", "Desc">>

ParamLine == <<"*", "@param", "a", "the a">>

ReturnLine == <<"*", "@return", "the r">>

CloseLine == <<"*/">>

StmtLine == <<"int x", ";">>

AnnotationLine == <<"@Override">>

SignatureLine == <<"public int foo(int a)", "{">>

\* Number of lines before the signature that extract_javadoc looks at.
WindowLines == 10

\* Number of blank lines extract_javadoc accepts in the window.
AllowedBlankLines == 2

EmptyDoc == [description |-> <<>>, params |-> EmptyMap, returns |-> <<>>]

\* match.start() of method_pattern for the signature on line sig of the
\* content, as a line index: `^\s*` at the head of the pattern takes the
\* blank lines before the signature into the match.
RECURSIVE match_start(_, _)
match_start(content, sig) ==
    IF sig > 1 /\ content[sig - 1] = Blank THEN match_start(content, sig - 1) ELSE sig

\* content[:method_start_pos].split('\n'): the lines before the position
\* and the empty piece after the last line break.
lines_before(content, method_start_pos) ==
    SubSeq(content, 1, method_start_pos - 1) \o <<Blank>>

\* The slice lines[-n:].
Suffix(lines, n) ==
    SubSeq(lines, IF Len(lines) > n THEN Len(lines) - n + 1 ELSE 1, Len(lines))

\* The first loop of extract_javadoc over the window, from line i back to
\* line 1: the value of lines_to_check after it.
RECURSIVE CollectLines(_, _, _, _)
CollectLines(window, i, blank_line_count, lines_to_check) ==
    IF i < 1 THEN lines_to_check
    ELSE LET stripped == window[i]
             count == IF stripped = Blank THEN blank_line_count + 1
                      ELSE blank_line_count
         IN  IF stripped # Blank /\ stripped[Len(stripped)] \in {"}", ";"}
             THEN lines_to_check
             ELSE IF stripped = Blank /\ count > AllowedBlankLines
             THEN lines_to_check
             ELSE CollectLines(window, i - 1, count, <<window[i]>> \o lines_to_check)

\* re.sub(r'^\s*\*\s?', '', line)
RemoveLeadingStar(line) ==
    IF line # <<>> /\ line[1] = "*" THEN Tail(line) ELSE line

\* The second loop of extract_javadoc, from line i back to line 1: the
\* value of javadoc_lines after it.
RECURSIVE CollectJavadoc(_, _, _, _)
CollectJavadoc(lines_to_check, i, in_javadoc, javadoc_lines) ==
    IF i < 1 THEN javadoc_lines
    ELSE LET stripped == lines_to_check[i] IN
         IF stripped # <<>> /\ stripped[1] = "*/"
         THEN CollectJavadoc(lines_to_check, i - 1, TRUE, javadoc_lines)
         ELSE IF stripped # <<>> /\ stripped[1] = "/**"
         THEN javadoc_lines
         ELSE IF in_javadoc /\ RemoveLeadingStar(stripped) # <<>>
         THEN CollectJavadoc(lines_to_check, i - 1, in_javadoc,
                             <<RemoveLeadingStar(stripped)>> \o javadoc_lines)
         ELSE CollectJavadoc(lines_to_check, i - 1, in_javadoc, javadoc_lines)

\* The fragments that start with '@'.
AtWords == {"@param", "@return", "@Override"}

\* The loop "Parse javadoc content" from line i on.
RECURSIVE ParseJavadoc(_, _, _)
ParseJavadoc(javadoc_lines, i, javadoc) ==
    IF i > Len(javadoc_lines) THEN javadoc
    ELSE LET line == javadoc_lines[i] IN
         ParseJavadoc(javadoc_lines, i + 1,
            IF line[1] = "@param"
            THEN IF Len(line) >= 3
                 THEN [javadoc EXCEPT !.params = (line[2] :> line[3]) @@ @]
                 ELSE javadoc
            ELSE IF line[1] = "@return"
            THEN [javadoc EXCEPT !.returns = Tail(line)]
            ELSE IF line[1] \notin AtWords
            THEN [javadoc EXCEPT !.description =
                      IF @ = <<>> THEN line ELSE @ \o <<" ">> \o line]
            ELSE javadoc)

\* extract_javadoc(content, method_start_pos)
extract_javadoc(content, method_start_pos) ==
    LET window == Suffix(lines_before(content, method_start_pos), WindowLines)
        lines_to_check == CollectLines(window, Len(window), 0, <<>>)
        javadoc_lines == CollectJavadoc(lines_to_check, Len(lines_to_check), FALSE, <<>>)
    IN  ParseJavadoc(javadoc_lines, 1, EmptyDoc)

\* Largest number of lines before the signature in the short contents.
MaxLinesBefore == 4

LineKinds ==
    {Blank, OpenLine, TextLine, ParamLine, ReturnLine, CloseLine, StmtLine,
     AnnotationLine}

Blanks(n) == [i \in 1..n |-> Blank]

\* int x; then a documentation block of one text line, then n blank lines.
DocThenBlanks(n) == <<StmtLine, OpenLine, TextLine, CloseLine>> \o Blanks(n)

\* int x; then a documentation block of n text lines.
LongDoc(n) == <<StmtLine, OpenLine>> \o [i \in 1..n |-> TextLine] \o <<CloseLine>>

LinesBefore ==
    UNION {[1..n -> LineKinds] : n \in 0..MaxLinesBefore}
    \cup {DocThenBlanks(n) : n \in 1..(AllowedBlankLines + 2)}
    \cup {LongDoc(n) : n \in (WindowLines - 3)..(WindowLines + 1)}

InitJavadoc ==
    /\ variant = "JavaMethodExtractor.extract_methods"
    /\ NoScan
    /\ args \in [content : {ls \o <<SignatureLine>> : ls \in LinesBefore}]
    /\ returned = <<>>

\* extract_methods finds the signature, takes match.start() as
\* method_start_pos and calls extract_javadoc(content, method_start_pos).
CallExtractJavadoc ==
    /\ variant = "JavaMethodExtractor.extract_methods"
    /\ returned = <<>>
    /\ LET method_start_pos == match_start(args.content, Len(args.content))
       IN  returned' = <<extract_javadoc(args.content, method_start_pos)>>
    /\ UNCHANGED <<args, scanVars>>

NextJavadoc == CallExtractJavadoc

SpecJavadoc == InitJavadoc /\ [][NextJavadoc]_vars

(***************************************************************************)
(* Properties of extract_javadoc.                                          *)
(***************************************************************************)
JavadocReturned == variant = "JavaMethodExtractor.extract_methods" /\ returned # <<>>

\* The index of the signature line of the content.
SigIndex == Len(args.content)

\* The number of blank lines right before the signature line.
BlankLinesBeforeSignature == SigIndex - match_start(args.content, SigIndex)

\* The content ends with a documentation block (opening marker, one or
\* more lines of text or tags, closing marker), then blank lines only,
\* then the signature.
BlockBeforeSignature ==
    LET close == SigIndex - BlankLinesBeforeSignature - 1 IN
    /\ close >= 3
    /\ args.content[close] = CloseLine
    /\ \E open \in 1..(close - 2) :
          /\ args.content[open] = OpenLine
          /\ \A i \in (open + 1)..(close - 1) :
                args.content[i] \in {TextLine, ParamLine, ReturnLine}

\* C16: a documentation block separated from the signature line by exactly
\* one blank line is bound to the method; separated by three blank lines it
\* is not bound, and description, params and returns are empty.
C16_BlankLineAdjacency ==
    (JavadocReturned /\ BlockBeforeSignature) =>
        /\ BlankLinesBeforeSignature = 1 => returned[1] # EmptyDoc
        /\ BlankLinesBeforeSignature = 3 => returned[1] = EmptyDoc

\* The lines extract_javadoc retains of the window before the signature.
RetainedWindow ==
    LET window == Suffix(lines_before(args.content,
                                      match_start(args.content, SigIndex)),
                         WindowLines)
    IN  CollectLines(window, Len(window), 0, <<>>)

\* The retained window holds a closing marker and, further back, an
\* opening marker.
WindowHasBlock ==
    \E i, j \in 1..Len(RetainedWindow) :
        /\ i < j
        /\ RetainedWindow[i] = OpenLine
        /\ RetainedWindow[j] = CloseLine

\* C17: when the retained window does not hold both a closing marker and,
\* further back, an opening marker, extract_javadoc returns the empty
\* documentation.
C17_NoBlockNoDoc ==
    (JavadocReturned /\ ~WindowHasBlock) => returned[1] = EmptyDoc

(***************************************************************************)
(* The declaration patterns of extract_class_info (extract_app_docs.py)    *)
(* and of parse_file (analyze_code.py) on the text of a file.  The content *)
(* is the sequence of the lines of the file, a line the sequence of its    *)
(* fragments: words and the markers //, /*, */, *, ", ;, = and {.          *)
(***************************************************************************)
TypeKeywords == {"class", "interface", "enum", "record"}

\* The fragments that \w+ and [\w.]+ do not match.
Markers == {"//", "/*", "*/", "*", "\"", ";", "=", "{"}

IsWord(fragment) == fragment \notin Markers

NoClassInfo == [name |-> "Unknown", extends |-> "", implements |-> <<>>, line |-> 1]

\* Index of the first fragment of the line after the optional visibility
\* and the modifiers abstract, static, final of the pattern.
RECURSIVE SkipModifiers(_, _)
SkipModifiers(line, i) ==
    IF i <= Len(line) /\ line[i] \in {"abstract", "static", "final"}
    THEN SkipModifiers(line, i + 1)
    ELSE i

\* The pattern of extract_class_info tried at the start of one line: the
\* groups when it matches there.
class_pattern_at(line, line_number) ==
    LET i == SkipModifiers(line, IF line # <<>> /\ line[1] \in Visibilities THEN 2 ELSE 1)
        at(j) == IF j <= Len(line) THEN line[j] ELSE ";"
    IN  IF at(i) \in TypeKeywords /\ IsWord(at(i + 1))
        THEN LET has_extends == at(i + 2) = "extends" /\ IsWord(at(i + 3))
                 k == IF has_extends THEN i + 4 ELSE i + 2
             IN  [name |-> at(i + 1),
                  extends |-> IF has_extends THEN at(i + 3) ELSE "",
                  implements |-> IF at(k) = "implements" /\ IsWord(at(k + 1))
                                 THEN <<at(k + 1)>> ELSE <<>>,
                  line |-> line_number]
        ELSE NoClassInfo

\* re.search(pattern, content, re.MULTILINE) of extract_class_info: the
\* first line, from line n on, at whose start the pattern matches.
RECURSIVE search_class_pattern(_, _)
search_class_pattern(content, n) ==
    IF n > Len(content) THEN NoClassInfo
    ELSE IF class_pattern_at(content[n], n) # NoClassInfo
    THEN class_pattern_at(content[n], n)
    ELSE search_class_pattern(content, n + 1)

\* The class-name pattern of parse_file in one line: the word after the
\* first type keyword that a word follows, "" when there is none.
RECURSIVE loose_pattern_in(_, _)
loose_pattern_in(line, j) ==
    IF j >= Len(line) THEN ""
    ELSE IF line[j] \in TypeKeywords /\ IsWord(line[j + 1]) THEN line[j + 1]
    ELSE loose_pattern_in(line, j + 1)

\* extract_pattern(class pattern, content) of parse_file: the pattern is
\* not tied to the start of a line; None is "".
RECURSIVE search_loose_pattern(_, _)
search_loose_pattern(content, n) ==
    IF n > Len(content) THEN ""
    ELSE IF loose_pattern_in(content[n], 1) # "" THEN loose_pattern_in(content[n], 1)
    ELSE search_loose_pattern(content, n + 1)

\* Largest number of lines of a file.
MaxDeclLines == 4

\* // class B          /*          */          * class B
\* class B extends C   public class A extends D implements E {
\* x = "class B";      /* class B */
DeclLineKinds ==
    {<<"//", "class", "B">>,
     <<"/*">>,
     <<"*/">>,
     <<"*", "class", "B">>,
     <<"class", "B", "extends", "C">>,
     <<"public", "class", "A", "extends", "D", "implements", "E", "{">>,
     <<"x", "=", "\"", "class", "B", "\"", ";">>,
     <<"/*", "class", "B", "*/">>}

InitDecl ==
    /\ variant = "declaration patterns"
    /\ NoScan
    /\ args \in [content : UNION {[1..n -> DeclLineKinds] : n \in 0..MaxDeclLines}]
    /\ returned = <<>>

\* process_file calls extract_class_info(content); parse_file searches its
\* class-name pattern in the same content.
CallDeclarationPatterns ==
    /\ variant = "declaration patterns"
    /\ returned = <<>>
    /\ returned' = << [class_info |-> search_class_pattern(args.content, 1),
                       class_name |-> search_loose_pattern(args.content, 1)] >>
    /\ UNCHANGED <<args, scanVars>>

NextDecl == CallDeclarationPatterns

SpecDecl == InitDecl /\ [][NextDecl]_vars

(***************************************************************************)
(* Properties of the declaration patterns.                                 *)
(***************************************************************************)
\* The fragments of a line that are code, when the line starts in lexical
\* mode `mode` ("code", "block"), from fragment j on.
RECURSIVE CodeOfLine(_, _, _, _)
CodeOfLine(line, j, mode, inString) ==
    IF j > Len(line) THEN <<>>
    ELSE LET f == line[j] IN
         IF mode = "block"
         THEN CodeOfLine(line, j + 1, IF f = "*/" THEN "code" ELSE "block", FALSE)
         ELSE IF inString THEN CodeOfLine(line, j + 1, "code", f # "\"")
         ELSE IF f = "//" THEN <<>>
         ELSE IF f = "/*" THEN CodeOfLine(line, j + 1, "block", FALSE)
         ELSE IF f = "\"" THEN CodeOfLine(line, j + 1, "code", TRUE)
         ELSE <<f>> \o CodeOfLine(line, j + 1, "code", FALSE)

\* The lexical mode at the end of a line that starts in mode `mode`.
RECURSIVE ModeAfter(_, _, _, _)
ModeAfter(line, j, mode, inString) ==
    IF j > Len(line) THEN mode
    ELSE LET f == line[j] IN
         IF mode = "block"
         THEN ModeAfter(line, j + 1, IF f = "*/" THEN "code" ELSE "block", FALSE)
         ELSE IF inString THEN ModeAfter(line, j + 1, "code", f # "\"")
         ELSE IF f = "//" THEN "code"
         ELSE IF f = "/*" THEN ModeAfter(line, j + 1, "block", FALSE)
         ELSE IF f = "\"" THEN ModeAfter(line, j + 1, "code", TRUE)
         ELSE ModeAfter(line, j + 1, "code", FALSE)

\* The content with everything but its code regions taken out, line by
\* line from line n on.
RECURSIVE CodeRegions(_, _, _)
CodeRegions(content, n, mode) ==
    IF n > Len(content) THEN <<>>
    ELSE <<CodeOfLine(content[n], 1, mode, FALSE)>>
         \o CodeRegions(content, n + 1, ModeAfter(content[n], 1, mode, FALSE))

\* C22: the type name, extends name and implements names recorded by
\* extract_class_info, and the class name found by parse_file, are those
\* found in the code regions of the content: text inside a line comment, a
\* block comment or a string literal does not change them.
C22_CodeRegionsOnly ==
    (variant = "declaration patterns" /\ returned # <<>>) =>
        LET code == CodeRegions(args.content, 1, "code") IN
        /\ returned[1].class_info = search_class_pattern(code, 1)
        /\ returned[1].class_name = search_loose_pattern(code, 1)

(***************************************************************************)
(* strip_javadoc.py: CommentStripper.strip_comments.  The content is the   *)
(* sequence of its characters.                                             *)
(***************************************************************************)
\* The index of the first line break at or after index i, or one past the
\* end of the content: where `//[^\n]*` stops.
RECURSIVE LineEnd(_, _)
LineEnd(content, i) ==
    IF i > Len(content) \/ content[i] = "\n" THEN i ELSE LineEnd(content, i + 1)

\* The index of the '/' of the first "*/" at or after index i, 0 when
\* there is none: where `/\*[\s\S]*?\*/` stops.
RECURSIVE BlockEnd(_, _)
BlockEnd(content, i) ==
    IF i + 1 > Len(content) THEN 0
    ELSE IF content[i] = "*" /\ content[i + 1] = "/" THEN i + 1
    ELSE BlockEnd(content, i + 1)

\* The index of the quote that closes `"(?:\\.|[^"\\])*"` when the
\* character after the opening quote is at index i, 0 when the pattern does
\* not match: a backslash takes the next character with it, unless that
\* character is a line break.
RECURSIVE StringEnd(_, _)
StringEnd(content, i) ==
    IF i > Len(content) THEN 0
    ELSE IF content[i] = "\"" THEN i
    ELSE IF content[i] = "\\"
    THEN IF i + 1 <= Len(content) /\ content[i + 1] # "\n"
         THEN StringEnd(content, i + 2)
         ELSE 0
    ELSE StringEnd(content, i + 1)

\* re.sub(pattern, replacer, content) from index i on: the text produced
\* and the value of count.
RECURSIVE Substitute(_, _, _, _)
Substitute(content, i, cleaned, count) ==
    IF i > Len(content) THEN [cleaned |-> cleaned, count |-> count]
    ELSE LET c == content[i]
             next == IF i < Len(content) THEN content[i + 1] ELSE ""
         IN  IF c = "/" /\ next = "/"
             THEN Substitute(content, LineEnd(content, i + 2), cleaned, count + 1)
             ELSE IF c = "/" /\ next = "*" /\ BlockEnd(content, i + 2) > 0
             THEN Substitute(content, BlockEnd(content, i + 2) + 1,
                             Append(cleaned, " "), count + 1)
             ELSE IF c = "\"" /\ StringEnd(content, i + 1) > 0
             THEN Substitute(content, StringEnd(content, i + 1) + 1,
                             cleaned \o SubSeq(content, i, StringEnd(content, i + 1)),
                             count)
             ELSE Substitute(content, i + 1, Append(cleaned, c), count)

\* re.sub(r'\n{3,}', '\n\n', cleaned) from index i on; run is the number
\* of line breaks right before index i.
RECURSIVE CollapseBlankLines(_, _, _)
CollapseBlankLines(cleaned, i, run) ==
    IF i > Len(cleaned) THEN <<>>
    ELSE IF cleaned[i] = "\n"
    THEN (IF run < 2 THEN <<"\n">> ELSE <<>>) \o CollapseBlankLines(cleaned, i + 1, run + 1)
    ELSE <<cleaned[i]>> \o CollapseBlankLines(cleaned, i + 1, 0)

\* strip_comments(content): the pair (cleaned, count).
strip_comments(content) ==
    LET r == Substitute(content, 1, <<>>, 0) IN
    [cleaned |-> CollapseBlankLines(r.cleaned, 1, 0), count |-> r.count]

\* Largest number of characters of a content.
MaxStripChars == 5

StripAlphabet == {"\"", "/", "*", "\n", "\\", "x"}

InitStrip ==
    /\ variant = "strip_comments"
    /\ NoScan
    /\ args \in [content : UNION {[1..n -> StripAlphabet] : n \in 0..MaxStripChars}]
    /\ returned = <<>>

\* process_file calls strip_comments(content).
CallStripComments ==
    /\ variant = "strip_comments"
    /\ returned = <<>>
    /\ returned' = <<strip_comments(args.content)>>
    /\ UNCHANGED <<args, scanVars>>

NextStrip == CallStripComments

SpecStrip == InitStrip /\ [][NextStrip]_vars

(***************************************************************************)
(* Properties of strip_comments.                                           *)
(***************************************************************************)
\* The string literals and the comments of a text from index i on, in
\* lexical mode `mode`, as spans [kind, from, to]; `from` is where the
\* span that is open began.  A quote opens a literal when a later quote
\* that no backslash escapes closes it, and "/*" opens a comment when a
\* later "*/" closes it.
RECURSIVE LexSpans(_, _, _, _)
LexSpans(text, i, mode, from) ==
    IF i > Len(text)
    THEN IF mode = "line" THEN << [kind |-> "comment", from |-> from, to |-> Len(text)] >>
         ELSE <<>>
    ELSE LET c == text[i]
             two == IF i < Len(text) THEN <<c, text[i + 1]>> ELSE <<c>>
         IN  CASE mode = "line" ->
                    IF c = "\n"
                    THEN << [kind |-> "comment", from |-> from, to |-> i - 1] >>
                         \o LexSpans(text, i + 1, "code", 0)
                    ELSE LexSpans(text, i + 1, "line", from)
               [] mode = "block" ->
                    IF two = <<"*", "/">>
                    THEN << [kind |-> "comment", from |-> from, to |-> i + 1] >>
                         \o LexSpans(text, i + 2, "code", 0)
                    ELSE LexSpans(text, i + 1, "block", from)
               [] mode = "string" ->
                    IF c = "\"" THEN << [kind |-> "string", from |-> from, to |-> i] >>
                                     \o LexSpans(text, i + 1, "code", 0)
                    ELSE IF c = "\\" THEN LexSpans(text, i + 2, "string", from)
                    ELSE LexSpans(text, i + 1, "string", from)
               [] OTHER ->
                    IF two = <<"/", "/">> THEN LexSpans(text, i + 2, "line", i)
                    ELSE IF two = <<"/", "*">> /\ BlockEnd(text, i + 2) > 0
                    THEN LexSpans(text, i + 2, "block", i)
                    ELSE IF c = "\"" /\ StringEnd(text, i + 1) > 0
                    THEN LexSpans(text, i + 1, "string", i)
                    ELSE LexSpans(text, i + 1, "code", 0)

\* Sequence s occurs in sequence t as a run of consecutive elements.
Occurs(s, t) ==
    \E k \in 0..(Len(t) - Len(s)) : SubSeq(t, k + 1, k + Len(s)) = s

\* C23: every double-quoted string literal of the input is in the output
\* with its characters unchanged, and the returned count is the number of
\* comments of the input that begin outside a string literal.
C23_StringsPreserved ==
    (variant = "strip_comments" /\ returned # <<>>) =>
        LET spans == LexSpans(args.content, 1, "code", 0) IN
        /\ \A n \in 1..Len(spans) :
              spans[n].kind = "string" =>
                  Occurs(SubSeq(args.content, spans[n].from, spans[n].to),
                         returned[1].cleaned)
        /\ returned[1].count =
              Cardinality({n \in 1..Len(spans) : spans[n].kind = "comment"})

(***************************************************************************)
(* extract_app_docs.py: Pass 2 with its steps taken in any order.  The     *)
(* steps are those of analyze_scope; each consumer class keeps the order   *)
(* of its own references, and the consumers are interleaved freely.        *)
(***************************************************************************)
InitAnyOrder == Init /\ variant = "extract_app_docs"

\* extract_all calls analyze_scope when Pass 1 is over.
BeginAnyOrder ==
    /\ variant = "extract_app_docs"
    /\ pc = "scan"
    /\ Pass1Done
    /\ pc' = "resolve"
    /\ cursor' = [k \in DOMAIN api_data |-> 1]
    /\ UNCHANGED <<variant, files, fileIdx, api_data, api_order, class_lookup,
                   ci, ri, warnings, classes, basic_api, args, returned>>

\* The step of analyze_scope on the next reference of one consumer: the
\* inheritance check or one call of check_reference.
ResolveStep(consumer_name) ==
    /\ pc = "resolve"
    /\ cursor[consumer_name] <= Len(ScopeRefs(api_data[consumer_name]))
    /\ LET consumer_data == api_data[consumer_name]
           ref == ScopeRefs(consumer_data)[cursor[consumer_name]]
           words == CleanType(ref.type)
       IN  IF ref.kind = "extends"
           THEN LET parent_full == resolve_class(consumer_data.extends, consumer_data,
                                                 api_data, class_lookup)
                IN  /\ api_data' = IF parent_full # None
                                   THEN add_usage(api_data, parent_full,
                                                  consumer_name, "Extended by")
                                   ELSE api_data
                    /\ pc' = pc
                    /\ cursor' = [cursor EXCEPT ![consumer_name] = @ + 1]
           ELSE IF words = <<>>
           THEN /\ pc' = "crashed"
                /\ UNCHANGED <<api_data, cursor>>
           ELSE LET target_full == resolve_class(words[1], consumer_data,
                                                 api_data, class_lookup)
                IN  /\ api_data' = IF IsForeign(target_full, consumer_name)
                                   THEN add_usage(api_data, target_full,
                                                  consumer_name, "Used by")
                                   ELSE api_data
                    /\ pc' = pc
                    /\ cursor' = [cursor EXCEPT ![consumer_name] = @ + 1]
    /\ UNCHANGED <<variant, files, fileIdx, api_order, class_lookup,
                   ci, ri, warnings, classes, basic_api, args, returned>>

\* Every reference of every consumer has been visited: analyze_scope returns.
FinishAnyOrder ==
    /\ pc = "resolve"
    /\ \A k \in DOMAIN cursor : cursor[k] > Len(ScopeRefs(api_data[k]))
    /\ pc' = "done"
    /\ UNCHANGED <<variant, files, fileIdx, api_data, api_order, class_lookup,
                   ci, ri, warnings, classes, basic_api, args, returned, cursor>>

NextAnyOrder ==
    \/ Pass1Step
    \/ BeginAnyOrder
    \/ \E consumer_name \in DOMAIN api_data : ResolveStep(consumer_name)
    \/ FinishAnyOrder

SpecAnyOrder == InitAnyOrder /\ [][NextAnyOrder]_vars

(***************************************************************************)
(* Properties of Pass 2 taken in any order.                                *)
(***************************************************************************)
Elements(s) == {s[i] : i \in 1..Len(s)}

\* The classes that the references of consumer k resolve to and that
\* analyze_scope hands to add_usage; a function of what Pass 1 left.
TargetsOf(k) ==
    {t \in Keys :
        \E r \in 1..Len(ScopeRefs(api_data[k])) :
            LET ref == ScopeRefs(api_data[k])[r] IN
            /\ RefTarget(ref, api_data[k]) = t
            /\ ref.kind = "member" => t # k}

\* Some reference has a type string without a word: check_reference raises
\* on it whenever it is visited.
SomeWordlessRef ==
    \E k \in Keys : \E r \in 1..Len(ScopeRefs(api_data[k])) :
        /\ ScopeRefs(api_data[k])[r].kind = "member"
        /\ CleanType(ScopeRefs(api_data[k])[r].type) = <<>>

\* C24: whatever the order in which the steps of Pass 2 were taken, when
\* analyze_scope returns the set of entries of each uses list and of each
\* usedBy list is the one fixed by the api_data and class_lookup of
\* Pass 1; and whether analyze_scope returns or raises does not depend on
\* the order either.
C24_OrderIndependent ==
    /\ (pc = "done" /\ cursor # EmptyMap) =>
          /\ ~SomeWordlessRef
          /\ \A k \in Keys :
                /\ Elements(api_data[k].uses) = TargetsOf(k)
                /\ Elements(api_data[k].usedBy) = {j \in Keys : k \in TargetsOf(j)}
    /\ pc = "crashed" => SomeWordlessRef

\* C24 witness: Pass 2 has finished in an order that analyze_scope does not
\* take: a usedBy list names a later consumer before an earlier one.
C24_Witness ==
    /\ pc = "done"
    /\ cursor # EmptyMap
    /\ \E t \in Keys : \E i, j \in 1..Len(api_order) :
          /\ i < j
          /\ api_data[t].usedBy = <<api_order[j], api_order[i]>>
====
